---------------------------- MODULE Spec2Model ----------------------------
(***************************************************************************)
(* Vendor price matcher and discontinued-items finder.                     *)
(*                                                                         *)
(* Model of src/vendor_price_matcher.py (price-matching mode) and of       *)
(* src/find_discontinued_items.py (discontinuation mode).                  *)
(*                                                                         *)
(* A Python str is a sequence of one-character strings, so that upper(),   *)
(* strip(), split() and the '|' concatenation of the lookup keys are       *)
(* computed character by character.  The two missing-value markers of the  *)
(* code, Python's None and pandas' NaN (a blank spreadsheet cell), are the *)
(* one-element sequences None and NaN, whose element is no character.      *)
(* A DataFrame is a record [columns, rows]: the set of its column names    *)
(* and the sequence of its rows, each row a function from the column names *)
(* to cells.  Columns follow pandas' object dtype: astype(str) turns None  *)
(* into 'None' and NaN into 'nan'.                                         *)
(***************************************************************************)
EXTENDS Integers, Sequences, FiniteSets, TLC

VARIABLES
    pc,          \* position of the running function or driver
    args,        \* arguments of the helper function being called
    ret,         \* value returned by the helper function
    oitm_df,     \* internal item table of the pair being processed
    vpl_df,      \* vendor table of the pair being processed
    file_pairs,  \* main(): the discovered (internal file, vendor file) pairs
    idx,         \* main(): number of pairs attempted so far
    results,     \* main(): the results of the pairs that succeeded
    output_dir,  \* the output directory: file name -> rows written
    report       \* the summary reports written by create_summary_report

vars == <<pc, args, ret, oitm_df, vpl_df, file_pairs, idx, results, output_dir, report>>

-----------------------------------------------------------------------------
(* Python values and str methods *)

None == <<"<None>">>
NaN == <<"<NaN>">>

\* pandas.isna: None and NaN are both missing values
isna(v) == v = None \/ v = NaN

notna(v) == ~isna(v)

\* str(v) / Series.astype(str) on an object column
Str(v) ==
    IF v = None THEN <<"N", "o", "n", "e">>
    ELSE IF v = NaN THEN <<"n", "a", "n">>
    ELSE v

ascii_lowercase ==
    <<"a", "b", "c", "d", "e", "f", "g", "h", "i", "j", "k", "l", "m",
      "n", "o", "p", "q", "r", "s", "t", "u", "v", "w", "x", "y", "z">>

ascii_uppercase ==
    <<"A", "B", "C", "D", "E", "F", "G", "H", "I", "J", "K", "L", "M",
      "N", "O", "P", "Q", "R", "S", "T", "U", "V", "W", "X", "Y", "Z">>

UpperChar(c) ==
    IF \E i \in DOMAIN ascii_lowercase : ascii_lowercase[i] = c
    THEN ascii_uppercase[CHOOSE i \in DOMAIN ascii_lowercase : ascii_lowercase[i] = c]
    ELSE c

\* str.upper()
Upper(s) == [i \in DOMAIN s |-> UpperChar(s[i])]

LowerChar(c) ==
    IF \E i \in DOMAIN ascii_uppercase : ascii_uppercase[i] = c
    THEN ascii_lowercase[CHOOSE i \in DOMAIN ascii_uppercase : ascii_uppercase[i] = c]
    ELSE c

\* str.lower()
Lower(s) == [i \in DOMAIN s |-> LowerChar(s[i])]

Whitespace == {" ", "\t", "\n"}

RECURSIVE LStrip(_)
LStrip(s) ==
    IF s # <<>> /\ Head(s) \in Whitespace THEN LStrip(Tail(s)) ELSE s

RECURSIVE RStrip(_)
RStrip(s) ==
    IF s # <<>> /\ s[Len(s)] \in Whitespace
    THEN RStrip(SubSeq(s, 1, Len(s) - 1))
    ELSE s

\* str.strip()
Strip(s) == RStrip(LStrip(s))

\* str.split(sep) for a one-character separator
RECURSIVE Split(_, _)
Split(s, sep) ==
    IF \E i \in DOMAIN s : s[i] = sep
    THEN LET i == CHOOSE k \in DOMAIN s :
                      s[k] = sep /\ \A j \in 1..(k - 1) : s[j] # sep
         IN  <<SubSeq(s, 1, i - 1)>> \o Split(SubSeq(s, i + 1, Len(s)), sep)
    ELSE <<s>>

\* sep.join(parts)
RECURSIVE Join(_, _)
Join(parts, sep) ==
    IF parts = <<>> THEN <<>>
    ELSE IF Len(parts) = 1 THEN parts[1]
    ELSE parts[1] \o <<sep>> \o Join(Tail(parts), sep)

\* sub in s
Contains(s, sub) ==
    \E i \in 1..(Len(s) - Len(sub) + 1) : SubSeq(s, i, i + Len(sub) - 1) = sub

\* number of occurrences of the character c in s
Count(s, c) == Cardinality({i \in DOMAIN s : s[i] = c})

\* all strings over the alphabet A of at most n characters
StringsUpTo(A, n) == UNION {[1..k -> A] : k \in 0..n}

\* all sequences of lo..hi elements of S
SeqsOf(S, lo, hi) == UNION {[1..k -> S] : k \in lo..hi}

-----------------------------------------------------------------------------
(* parse_item_no: both copies *)

\* a copy with the colour of a long code cut to its first segment
parse_item_no_first_color(item_no) ==
    LET parts == Split(Str(item_no), "-")
    IN  IF Len(parts) = 4 THEN <<parts[1], parts[2], parts[3], parts[4]>>
        ELSE IF Len(parts) = 3 THEN <<parts[1], parts[2], parts[3], None>>
        ELSE IF Len(parts) > 4
             THEN <<parts[1], parts[2], parts[Len(parts) - 1], parts[Len(parts)]>>
        ELSE <<None, None, None, None>>

\* vendor_price_matcher.parse_item_no
parse_item_no(item_no) ==
    LET parts == Split(Str(item_no), "-")
    IN  IF Len(parts) = 4
        THEN <<parts[1], parts[2], parts[3], parts[4]>>
        ELSE IF Len(parts) = 3
        THEN <<parts[1], parts[2], parts[3], None>>
        ELSE IF Len(parts) > 4
        THEN LET style == parts[1]
                 variable == parts[Len(parts)]
                 size == parts[Len(parts) - 1]
                 color == Join(SubSeq(parts, 2, Len(parts) - 2), "-")
             IN  <<style, color, size, variable>>
        ELSE <<None, None, None, None>>

\* find_discontinued_items.parse_item_no
parse_item_no_fd(item_no) ==
    LET parts == Split(Str(item_no), "-")
    IN  IF Len(parts) = 4
        THEN <<parts[1], parts[2], parts[3], parts[4]>>
        ELSE IF Len(parts) = 3
        THEN <<parts[1], parts[2], parts[3], None>>
        ELSE IF Len(parts) > 4
        THEN LET style == parts[1]
                 variable == parts[Len(parts)]
                 size == parts[Len(parts) - 1]
                 color == Join(SubSeq(parts, 2, Len(parts) - 2), "-")
             IN  <<style, color, size, variable>>
        ELSE <<None, None, None, None>>

\* the state shared by every specification when nothing is loaded
NoFrame == [columns |-> {}, rows |-> <<>>]

Idle ==
    /\ oitm_df = NoFrame
    /\ vpl_df = NoFrame
    /\ file_pairs = <<>>
    /\ idx = 0
    /\ results = <<>>
    /\ output_dir = <<>>
    /\ report = <<>>

IdleUnchanged == UNCHANGED <<oitm_df, vpl_df, file_pairs, idx, results, output_dir, report>>

\* longest item code drawn
MaxCodeLen == 6

CodeAlphabet == {"A", "b", "-"}

\* the Item No. cells drawn: every short code, and a blank cell
ItemNos == StringsUpTo(CodeAlphabet, MaxCodeLen) \cup {NaN}

InitParse ==
    /\ pc = "parse_item_no"
    /\ args \in {[item_no |-> x] : x \in ItemNos}
    /\ ret = None
    /\ Idle

\* both scripts parse the same Item No. cell
ParseItemNo ==
    /\ pc = "parse_item_no"
    /\ ret' = [vpm |-> parse_item_no(args.item_no), fd |-> parse_item_no_fd(args.item_no)]
    /\ pc' = "parsed"
    /\ UNCHANGED args
    /\ IdleUnchanged

NextParse == ParseItemNo

SpecParse == InitParse /\ [][NextParse]_vars

\* the tuple the segment rule of parse_item_no prescribes for the string s:
\* its fields hold no '-' except the colour, and joined by '-' give s back
IsParseOf(t, s) ==
    LET n == Count(s, "-") + 1
    IN  IF n < 3 THEN t = <<None, None, None, None>>
        ELSE /\ Count(t[1], "-") = 0
             /\ Count(t[3], "-") = 0
             /\ IF n = 3
                THEN /\ t[4] = None
                     /\ Count(t[2], "-") = 0
                     /\ Join(<<t[1], t[2], t[3]>>, "-") = s
                ELSE /\ t[4] # None
                     /\ Count(t[4], "-") = 0
                     /\ Count(t[2], "-") = n - 4
                     /\ Join(<<t[1], t[2], t[3], t[4]>>, "-") = s

\* C3: parse_item_no (both copies) returns, for a code of n '-'-separated
\* segments, (seg0, seg1, seg2, None) when n = 3, the four segments when n = 4,
\* (seg0, the middle segments joined by '-', seg[n-2], seg[n-1]) when n > 4 and
\* (None, None, None, None) when n < 3; the two copies return the same tuple.
C3_ParseSegments ==
    pc = "parsed" =>
        /\ IsParseOf(ret.vpm, Str(args.item_no))
        /\ ret.fd = ret.vpm

\* a code of more than four segments has been parsed: its colour holds a '-'
C3_Witness ==
    /\ pc = "parsed"
    /\ ret.vpm # <<None, None, None, None>>
    /\ Count(ret.vpm[2], "-") > 0
    /\ ret.vpm[4] # None

-----------------------------------------------------------------------------
(* create_lookup_key *)

\* str(x).upper().strip()
UpperStrip(x) == Strip(Upper(Str(x)))

s_NONE == <<"N", "O", "N", "E">>
s_NAN == <<"N", "A", "N">>

\* a copy that tests the literal words without uppercasing the variable first
create_lookup_key_case_sensitive(style, color, size, variable) ==
    LET style_n == UpperStrip(style)
        color_n == UpperStrip(color)
        size_n == UpperStrip(size)
        var_n == IF \/ isna(variable)
                    \/ Strip(Str(variable)) = <<>>
                    \/ Strip(Str(variable)) \in {s_NONE, s_NAN}
                 THEN <<>>
                 ELSE UpperStrip(variable)
    IN  IF var_n # <<>>
        THEN style_n \o <<"|">> \o color_n \o <<"|">> \o size_n \o <<"|">> \o var_n
        ELSE style_n \o <<"|">> \o color_n \o <<"|">> \o size_n

\* a copy that uppercases the fields and leaves their surrounding whitespace
create_lookup_key_untrimmed(style, color, size, variable) ==
    LET style_n == Upper(Str(style))
        color_n == Upper(Str(color))
        size_n == Upper(Str(size))
        var_n == IF \/ isna(variable)
                    \/ variable = None
                    \/ Strip(Str(variable)) = <<>>
                    \/ UpperStrip(variable) \in {s_NONE, s_NAN}
                 THEN <<>>
                 ELSE Upper(Str(variable))
    IN  IF var_n # <<>>
        THEN style_n \o <<"|">> \o color_n \o <<"|">> \o size_n \o <<"|">> \o var_n
        ELSE style_n \o <<"|">> \o color_n \o <<"|">> \o size_n

\* find_discontinued_items.create_lookup_key
create_lookup_key(style, color, size, variable) ==
    LET style_n == UpperStrip(style)
        color_n == UpperStrip(color)
        size_n == UpperStrip(size)
        var_n == IF \/ isna(variable)
                    \/ variable = None
                    \/ Strip(Str(variable)) = <<>>
                    \/ UpperStrip(variable) \in {s_NONE, s_NAN}
                 THEN <<>>
                 ELSE UpperStrip(variable)
    IN  IF var_n # <<>>
        THEN style_n \o <<"|">> \o color_n \o <<"|">> \o size_n \o <<"|">> \o var_n
        ELSE style_n \o <<"|">> \o color_n \o <<"|">> \o size_n

\* the cells drawn for the four arguments
KeyStyles == {<<"A">>, <<" ", "a">>, None}
KeyColors == {<<"R", "E", "D">>, <<"r", "e", "d", " ">>}
KeySizes == {<<"M">>, <<"m">>}

\* variables that denote no value
KeyNoVariables ==
    {NaN, None, <<>>, <<" ">>, <<"n", "o", "n", "e">>, <<"N", "o", "n", "e">>,
     <<" ", "N", "a", "N", " ">>, <<"N", "A", "N">>}

\* variables that denote a variant
KeyVariables == {<<"1">>, <<" ", "x", " ">>, <<"n", "o">>, <<"N", "A">>}

InitKey ==
    /\ pc = "create_lookup_key"
    /\ args \in [style : KeyStyles, color : KeyColors, size : KeySizes,
                 variable : KeyNoVariables \cup KeyVariables]
    /\ ret = None
    /\ Idle

CreateLookupKey ==
    /\ pc = "create_lookup_key"
    /\ ret' = create_lookup_key(args.style, args.color, args.size, args.variable)
    /\ pc' = "keyed"
    /\ UNCHANGED args
    /\ IdleUnchanged

NextKey == CreateLookupKey

SpecKey == InitKey /\ [][NextKey]_vars

\* C10: create_lookup_key returns STYLE|COLOR|SIZE, the same key for all of
\* them, when the variable is NaN, None, blank after trimming or the word
\* NONE / NAN in any letter case with surrounding whitespace, and
\* STYLE|COLOR|SIZE|VARIANT otherwise, every field uppercased and trimmed.
C10_KeyShape ==
    pc = "keyed" =>
        LET three == <<UpperStrip(args.style), UpperStrip(args.color), UpperStrip(args.size)>>
        IN  IF args.variable \in KeyNoVariables
            THEN /\ ret = Join(three, "|")
                 /\ Count(ret, "|") = 2
            ELSE /\ ret = Join(three \o <<UpperStrip(args.variable)>>, "|")
                 /\ Count(ret, "|") = 3

\* the word 'NaN' padded with blanks has been collapsed to the 3-part key
C10_Witness ==
    /\ pc = "keyed"
    /\ args.variable = <<" ", "N", "a", "N", " ">>
    /\ args.style = <<" ", "a">>
    /\ ret = <<"A", "|", "R", "E", "D", "|", "M">>

\* C16: create_lookup_key is idempotent under its own normalization: the key
\* built from the uppercased and trimmed style, color and size and from the
\* variant, uppercased and trimmed or replaced by an absent value (blank, None
\* or NaN) when it denotes no value, is the key built from the original
\* components.
C16_KeyIdempotent ==
    pc = "keyed" =>
        LET style_n == UpperStrip(args.style)
            color_n == UpperStrip(args.color)
            size_n == UpperStrip(args.size)
            absent == UpperStrip(args.variable) \in {<<>>, s_NONE, s_NAN}
        IN  /\ ~absent =>
                  create_lookup_key(style_n, color_n, size_n, UpperStrip(args.variable)) = ret
            /\ absent =>
                  \A var_n \in {<<>>, None, NaN} :
                      create_lookup_key(style_n, color_n, size_n, var_n) = ret
            /\ Count(ret, "|") = IF absent THEN 2 ELSE 3

\* a key with a variant has been built from components in lower case with
\* surrounding blanks
C16_Witness ==
    /\ pc = "keyed"
    /\ args.style = <<" ", "a">>
    /\ args.color = <<"r", "e", "d", " ">>
    /\ args.size = <<"m">>
    /\ args.variable = <<" ", "x", " ">>
    /\ ret = <<"A", "|", "R", "E", "D", "|", "M", "|", "X">>
    /\ create_lookup_key(<<"A">>, <<"R", "E", "D">>, <<"M">>, <<"X">>) = ret

-----------------------------------------------------------------------------
(* SIZE_MAPPING, STYLES_USING_G_SIZES, apply_conditional_size_mapping *)

s_2278 == <<"2", "2", "7", "8">>
s_3483 == <<"3", "4", "8", "3">>
s_2795 == <<"2", "7", "9", "5">>
s_9999 == <<"9", "9", "9", "9">>
s_SILVER == <<"S", "I", "L", "V", "E", "R">>
s_BLUE == <<"B", "L", "U", "E">>
s_RED == <<"R", "E", "D">>

SIZE_MAPPING ==
    (<<"X", "S">> :> <<"X", "S", "M">>) @@
    (<<"S">> :> <<"S", "M">>) @@
    (<<"M">> :> <<"M", "D">>) @@
    (<<"L">> :> <<"L", "G">>) @@
    (<<"X", "L">> :> <<"X", "L", "G">>) @@
    (<<"2", "X", "L">> :> <<"2", "X", "L", "G">>) @@
    (<<"3", "X", "L">> :> <<"3", "X", "L", "G">>) @@
    (<<"4", "X", "L">> :> <<"4", "X", "L", "G">>) @@
    (<<"5", "X", "L">> :> <<"5", "X", "L", "G">>)

\* a rule is a bare style, [style], or a (style, color) tuple, [style, color]
STYLES_USING_G_SIZES ==
    <<[style |-> s_2278], [style |-> s_3483], [style |-> s_2795, color |-> s_SILVER]>>

\* isinstance(config, tuple)
IsTuple(config) == "color" \in DOMAIN config

\* SIZE_MAPPING.get(size, size)
SizeMappingGet(size) ==
    IF size \in DOMAIN SIZE_MAPPING THEN SIZE_MAPPING[size] ELSE size

\* the loop of apply_conditional_size_mapping from rule i on
RECURSIVE SizeMappingFrom(_, _, _)
SizeMappingFrom(row, styles_using_g_sizes, i) ==
    IF i > Len(styles_using_g_sizes) THEN row["Size"]
    ELSE LET config == styles_using_g_sizes[i]
         IN  IF IsTuple(config)
             THEN IF row["Style"] = config.style /\ row["Color"] = config.color
                  THEN SizeMappingGet(row["Size"])
                  ELSE SizeMappingFrom(row, styles_using_g_sizes, i + 1)
             ELSE IF row["Style"] = config.style
                  THEN SizeMappingGet(row["Size"])
                  ELSE SizeMappingFrom(row, styles_using_g_sizes, i + 1)

\* a copy whose tuple rules match on the style alone
RECURSIVE SizeMappingAnyColor(_, _, _)
SizeMappingAnyColor(row, styles_using_g_sizes, i) ==
    IF i > Len(styles_using_g_sizes) THEN row["Size"]
    ELSE IF row["Style"] = styles_using_g_sizes[i].style
         THEN SizeMappingGet(row["Size"])
         ELSE SizeMappingAnyColor(row, styles_using_g_sizes, i + 1)

apply_conditional_size_mapping_any_color(row, styles_using_g_sizes) ==
    SizeMappingAnyColor(row, styles_using_g_sizes, 1)

\* vendor_price_matcher.apply_conditional_size_mapping
apply_conditional_size_mapping(row, styles_using_g_sizes) ==
    SizeMappingFrom(row, styles_using_g_sizes, 1)

\* the parsed fields and the rule lists drawn
MapStyles == {s_2278, s_3483, s_2795, s_9999, None}
MapColors == {s_SILVER, s_BLUE, <<"s", "i", "l", "v", "e", "r">>, None}
MapSizes == DOMAIN SIZE_MAPPING \cup {<<"L", "G">>, <<"l">>, <<"O", "S">>, None}
MapRuleLists ==
    {STYLES_USING_G_SIZES,
     <<>>,
     <<[style |-> s_2795, color |-> s_BLUE], [style |-> s_9999]>>,
     <<[style |-> s_2795], [style |-> s_2795, color |-> s_SILVER]>>}

InitSize ==
    /\ pc = "apply_conditional_size_mapping"
    /\ args \in {[row |-> ("Style" :> st) @@ ("Color" :> co) @@ ("Size" :> sz),
                  styles_using_g_sizes |-> rl] :
                    st \in MapStyles, co \in MapColors, sz \in MapSizes, rl \in MapRuleLists}
    /\ ret = None
    /\ Idle

ApplyConditionalSizeMapping ==
    /\ pc = "apply_conditional_size_mapping"
    /\ ret' = apply_conditional_size_mapping(args.row, args.styles_using_g_sizes)
    /\ pc' = "mapped"
    /\ UNCHANGED args
    /\ IdleUnchanged

NextSize == ApplyConditionalSizeMapping

SpecSize == InitSize /\ [][NextSize]_vars

\* rule i of the list matches the row, and no earlier rule does
FirstMatch(row, rules, i) ==
    LET Matches(c) == IF IsTuple(c)
                      THEN row["Style"] = c.style /\ row["Color"] = c.color
                      ELSE row["Style"] = c.style
    IN  /\ i \in DOMAIN rules
        /\ Matches(rules[i])
        /\ \A j \in 1..(i - 1) : ~Matches(rules[j])

\* C7: apply_conditional_size_mapping lets the first rule in list order that
\* matches decide (a bare style matches any color, a (style, color) tuple only
\* that pair): the result is SIZE_MAPPING[size] when size is a key of the table
\* and size otherwise; with no matching rule the size is unchanged.  Shipped
\* rules: (2278, any, L) -> LG, (9999, any, L) -> L, (2795, SILVER, XL) -> XLG,
\* (2795, BLUE, XL) -> XL.
C7_FirstRuleDecides ==
    pc = "mapped" =>
        LET row == args.row
            rules == args.styles_using_g_sizes
            L == <<"L">>
            XL == <<"X", "L">>
        IN  /\ (\E i \in DOMAIN rules : FirstMatch(row, rules, i))
                => ret = (IF row["Size"] \in DOMAIN SIZE_MAPPING
                          THEN SIZE_MAPPING[row["Size"]] ELSE row["Size"])
            /\ (~\E i \in DOMAIN rules : FirstMatch(row, rules, i)) => ret = row["Size"]
            /\ rules = STYLES_USING_G_SIZES =>
                /\ (row["Style"] = s_2278 /\ row["Size"] = L) => ret = <<"L", "G">>
                /\ (row["Style"] = s_9999 /\ row["Size"] = L) => ret = L
                /\ (row["Style"] = s_2795 /\ row["Color"] = s_SILVER /\ row["Size"] = XL)
                      => ret = <<"X", "L", "G">>
                /\ (row["Style"] = s_2795 /\ row["Color"] = s_BLUE /\ row["Size"] = XL)
                      => ret = XL

\* the shipped tuple rule, the third of the list, has mapped a SILVER 2795
C7_Witness ==
    /\ pc = "mapped"
    /\ args.styles_using_g_sizes = STYLES_USING_G_SIZES
    /\ FirstMatch(args.row, args.styles_using_g_sizes, 3)
    /\ args.row["Size"] = <<"X", "L">>
    /\ ret = <<"X", "L", "G">>

-----------------------------------------------------------------------------
(* DataFrames *)

\* df[names] = F(row), row by row: the columns are added or overwritten in place
WithColumns(df, names, F(_)) ==
    [columns |-> df.columns \cup names,
     rows |-> [i \in DOMAIN df.rows |-> F(df.rows[i]) @@ df.rows[i]]]

\* df[col] as a sequence
Column(df, col) == [i \in DOMAIN df.rows |-> df.rows[i][col]]

\* a dict that keeps the first pair of a key
DictZipFirst(keys, values) ==
    [k \in {keys[i] : i \in DOMAIN keys} |->
        values[CHOOSE i \in DOMAIN keys :
                  keys[i] = k /\ \A j \in DOMAIN keys : keys[j] = k => j >= i]]

\* dict(zip(keys, values)): a later pair overwrites an earlier one with the same key
DictZip(keys, values) ==
    [k \in {keys[i] : i \in DOMAIN keys} |->
        values[CHOOSE i \in DOMAIN keys :
                  keys[i] = k /\ \A j \in DOMAIN keys : keys[j] = k => j <= i]]

\* Series.map(d) on one cell: NaN when the key is not in the dict
SeriesMap(d, k) == IF k \in DOMAIN d THEN d[k] ELSE NaN

\* Series.fillna('')
FillNa(v) == IF isna(v) THEN <<>> ELSE v

-----------------------------------------------------------------------------
(* match_prices *)

\* lines 165-167: Style, Color, Size, Variable parsed from Item No.
OitmParsed(df) ==
    WithColumns(df, {"Style", "Color", "Size", "Variable"},
        LAMBDA row : LET t == parse_item_no(row["Item No."])
                     IN  ("Style" :> t[1]) @@ ("Color" :> t[2]) @@
                         ("Size" :> t[3]) @@ ("Variable" :> t[4]))

\* lines 170-173: Size_Mapped
OitmSizeMapped(df, styles_using_g_sizes) ==
    WithColumns(df, {"Size_Mapped"},
        LAMBDA row : "Size_Mapped" :> apply_conditional_size_mapping(row, styles_using_g_sizes))

\* lines 176-180: the normalized fields of the internal items
OitmNormalized(df) ==
    WithColumns(df, {"Style_norm", "Color_norm", "Size_norm", "Size_Mapped_norm", "Variable_norm"},
        LAMBDA row : ("Style_norm" :> UpperStrip(row["Style"])) @@
                     ("Color_norm" :> UpperStrip(row["Color"])) @@
                     ("Size_norm" :> UpperStrip(row["Size"])) @@
                     ("Size_Mapped_norm" :> UpperStrip(row["Size_Mapped"])) @@
                     ("Variable_norm" :> UpperStrip(FillNa(row["Variable"]))))

\* lines 183-186: the normalized fields of the vendor rows
VplNormalized(df) ==
    WithColumns(df, {"Style_norm", "Color_norm", "Size_norm", "Variable_norm"},
        LAMBDA row : ("Style_norm" :> UpperStrip(row["Vendor Style"])) @@
                     ("Color_norm" :> UpperStrip(row["Color"])) @@
                     ("Size_norm" :> UpperStrip(row["Size"])) @@
                     ("Variable_norm" :> UpperStrip(FillNa(row["Variable"]))))

\* lines 189-200: Lookup_Key_4 and Lookup_Key_3 of the vendor rows
VplKeyed(df) ==
    WithColumns(df, {"Lookup_Key_4", "Lookup_Key_3"},
        LAMBDA row : ("Lookup_Key_4" :> row["Style_norm"] \o <<"|">> \o row["Color_norm"] \o <<"|">>
                                          \o row["Size_norm"] \o <<"|">> \o row["Variable_norm"]) @@
                     ("Lookup_Key_3" :> row["Style_norm"] \o <<"|">> \o row["Color_norm"] \o <<"|">>
                                          \o row["Size_norm"]))

\* keys of the internal items built from the size as parsed
OitmKeyedUnmapped(df) ==
    WithColumns(df, {"Lookup_Key_4_Mapped", "Lookup_Key_3_Mapped"},
        LAMBDA row : ("Lookup_Key_4_Mapped" :> row["Style_norm"] \o <<"|">> \o row["Color_norm"] \o <<"|">>
                                          \o row["Size_norm"] \o <<"|">> \o row["Variable_norm"]) @@
                     ("Lookup_Key_3_Mapped" :> row["Style_norm"] \o <<"|">> \o row["Color_norm"] \o <<"|">>
                                          \o row["Size_norm"]))

\* lines 202-213: Lookup_Key_4_Mapped and Lookup_Key_3_Mapped of the internal items
OitmKeyed(df) ==
    WithColumns(df, {"Lookup_Key_4_Mapped", "Lookup_Key_3_Mapped"},
        LAMBDA row : ("Lookup_Key_4_Mapped" :> row["Style_norm"] \o <<"|">> \o row["Color_norm"] \o <<"|">>
                                          \o row["Size_Mapped_norm"] \o <<"|">> \o row["Variable_norm"]) @@
                     ("Lookup_Key_3_Mapped" :> row["Style_norm"] \o <<"|">> \o row["Color_norm"] \o <<"|">>
                                          \o row["Size_Mapped_norm"]))

\* the vendor table as match_prices leaves it: its key columns are added in place
match_prices_vpl_df(vpl_df_in) == VplKeyed(VplNormalized(vpl_df_in))

\* lines 216-217, on the keyed vendor table
price_lookup_4(vpl_keyed) == DictZip(Column(vpl_keyed, "Lookup_Key_4"), Column(vpl_keyed, "Price"))

price_lookup_3(vpl_keyed) == DictZip(Column(vpl_keyed, "Lookup_Key_3"), Column(vpl_keyed, "Price"))

\* lines 220-222: the 4-part lookup, then the 3-part lookup where Price is NaN
OitmPriced(df, vpl_keyed) ==
    WithColumns(df, {"Price"},
        LAMBDA row :
            LET price_4 == SeriesMap(price_lookup_4(vpl_keyed), row["Lookup_Key_4_Mapped"])
                no_match == isna(price_4)
            IN  "Price" :> IF no_match
                           THEN SeriesMap(price_lookup_3(vpl_keyed), row["Lookup_Key_3_Mapped"])
                           ELSE price_4)

\* vendor_price_matcher.match_prices: the internal table it returns
match_prices(oitm_df_in, vpl_df_in, styles_using_g_sizes) ==
    OitmPriced(
        OitmKeyed(OitmNormalized(OitmSizeMapped(OitmParsed(oitm_df_in), styles_using_g_sizes))),
        match_prices_vpl_df(vpl_df_in))

\* cells of the tables drawn
s_A == <<"A">>
s_M == <<"M">>
s_L == <<"L">>
s_LG == <<"L", "G">>
s_none == <<"n", "o", "n", "e">>
p_4 == <<"4", ".", "0", "0">>
p_5 == <<"5", ".", "0", "0">>
p_6 == <<"6", ".", "0", "0">>
p_7 == <<"7", ".", "0", "0">>
p_8 == <<"8", ".", "0", "0">>
p_9 == <<"9", ".", "0", "0">>
p_10 == <<"1", "0", ".", "0", "0">>

\* the Item No. cells of the internal tables drawn:
\* A-RED-M-1, A-RED-M-2, A-RED-M, A-RED, 2278-RED-L, 2278-RED-l, A-RED-M-none
OitmItemNos ==
    {Join(<<s_A, s_RED, s_M, <<"1">>>>, "-"),
     Join(<<s_A, s_RED, s_M, <<"2">>>>, "-"),
     Join(<<s_A, s_RED, s_M>>, "-"),
     Join(<<s_A, s_RED>>, "-"),
     Join(<<s_2278, s_RED, s_L>>, "-"),
     Join(<<s_2278, s_RED, <<"l">>>>, "-"),
     Join(<<s_A, s_RED, s_M, s_none>>, "-")}

VplRow(style, color, size, variable, price) ==
    ("Vendor Style" :> style) @@ ("Color" :> color) @@ ("Size" :> size) @@
    ("Variable" :> variable) @@ ("Price" :> price)

\* the vendor rows drawn (a blank cell is NaN)
VplRows ==
    {VplRow(<<" ", "a">>, <<"r", "e", "d", " ">>, <<"m">>, <<"1">>, p_10),
     VplRow(s_A, s_RED, s_M, <<"2">>, NaN),
     VplRow(s_A, s_RED, s_M, NaN, p_8),
     VplRow(s_none, s_none, s_none, NaN, p_7),
     VplRow(s_2278, s_RED, s_LG, NaN, p_9),
     VplRow(s_2278, s_RED, s_L, NaN, p_6),
     VplRow(s_A, s_RED, s_M, s_none, p_4),
     VplRow(s_A, s_RED, s_M, <<"1">>, p_5)}

\* most rows of an internal table and of a vendor table drawn
MaxOitmRows == 2
MaxVplRows == 2

VplColumns == {"Vendor Style", "Color", "Size", "Variable", "Price"}

\* the internal tables drawn hold at least one item
OitmFrames ==
    {[columns |-> {"Item No."}, rows |-> [i \in DOMAIN items |-> "Item No." :> items[i]]] :
        items \in SeqsOf(OitmItemNos, 1, MaxOitmRows)}

VplFrames ==
    {[columns |-> VplColumns, rows |-> rows] : rows \in SeqsOf(VplRows, 0, MaxVplRows)}

InitMatch ==
    /\ pc = "match_prices"
    /\ oitm_df \in OitmFrames
    /\ vpl_df \in VplFrames
    /\ args = [oitm_df |-> oitm_df, vpl_df |-> vpl_df,
               styles_using_g_sizes |-> STYLES_USING_G_SIZES]
    /\ ret = None
    /\ file_pairs = <<>>
    /\ idx = 0
    /\ results = <<>>
    /\ output_dir = <<>>
    /\ report = <<>>

\* the call match_prices(oitm_df, vpl_df, STYLES_USING_G_SIZES)
MatchPrices ==
    /\ pc = "match_prices"
    /\ oitm_df' = match_prices(oitm_df, vpl_df, args.styles_using_g_sizes)
    /\ vpl_df' = match_prices_vpl_df(vpl_df)
    /\ ret' = oitm_df'
    /\ pc' = "matched"
    /\ UNCHANGED <<args, file_pairs, idx, results, output_dir, report>>

NextMatch == MatchPrices

SpecMatch == InitMatch /\ [][NextMatch]_vars

\* the vendor row v has the normalized style, color and size of the item row
\* r, the item's size taken after the size mapping
SameStyleColorMappedSize(r, v) ==
    /\ v["Style_norm"] = r["Style_norm"]
    /\ v["Color_norm"] = r["Color_norm"]
    /\ v["Size_norm"] = r["Size_Mapped_norm"]

\* the same with the item's size as parsed, before the size mapping
SameStyleColorSize(r, v) ==
    /\ v["Style_norm"] = r["Style_norm"]
    /\ v["Color_norm"] = r["Color_norm"]
    /\ v["Size_norm"] = r["Size_norm"]

\* the vendor row carries no variant
Variantless(v) == v["Variable_norm"] = <<>>

\* C1: if the item's 4-part key is in the key4 -> price map its price is that
\* map's value, and the key3 -> price map is not consulted; if only its 3-part
\* key is in the key3 map its price is that map's value; if neither map holds
\* its key the item is unmatched.
C1_FirstHitWins ==
    pc = "matched" =>
        \A i \in DOMAIN oitm_df.rows :
            LET r == oitm_df.rows[i]
                key4 == r["Lookup_Key_4_Mapped"]
                key3 == r["Lookup_Key_3_Mapped"]
                map4 == price_lookup_4(vpl_df)
                map3 == price_lookup_3(vpl_df)
            IN  IF key4 \in DOMAIN map4 THEN r["Price"] = map4[key4]
                ELSE IF key3 \in DOMAIN map3 THEN r["Price"] = map3[key3]
                ELSE isna(r["Price"])

\* C2 as stated: an item without a 4-part vendor hit gets the price of any
\* variant-less vendor row with its normalized style, color and size,
\* whatever the other rows and their order.
C2_VariantlessRowPrice ==
    pc = "matched" =>
        \A i \in DOMAIN oitm_df.rows : \A j \in DOMAIN vpl_df.rows :
            LET r == oitm_df.rows[i]
                v == vpl_df.rows[j]
            IN  (/\ \A k \in DOMAIN vpl_df.rows :
                        vpl_df.rows[k]["Lookup_Key_4"] # r["Lookup_Key_4_Mapped"]
                 /\ Variantless(v)
                 /\ SameStyleColorSize(r, v))
                => (notna(r["Price"]) /\ r["Price"] = v["Price"])

\* C2 (amended): when no vendor row has the item's 4-part key and a
\* variant-less vendor row has the item's normalized style, color and mapped
\* size, the item's price is the price of the last vendor row in table order
\* with that style, color and size, with or without a variant.
C2_LastRowOfKey3Price ==
    pc = "matched" =>
        \A i \in DOMAIN oitm_df.rows :
            LET r == oitm_df.rows[i]
                same3 == {j \in DOMAIN vpl_df.rows : SameStyleColorMappedSize(r, vpl_df.rows[j])}
            IN  (/\ \A k \in DOMAIN vpl_df.rows :
                        vpl_df.rows[k]["Lookup_Key_4"] # r["Lookup_Key_4_Mapped"]
                 /\ \E j \in same3 : Variantless(vpl_df.rows[j]))
                => \E j \in same3 :
                       /\ \A k \in same3 : k <= j
                       /\ r["Price"] = vpl_df.rows[j]["Price"]

\* an item with a variant no vendor row has was priced by the 3-part fallback
\* from a variant-less row that follows a row with another variant
C2_Witness ==
    /\ pc = "matched"
    /\ \E i \in DOMAIN oitm_df.rows : \E j, k \in DOMAIN vpl_df.rows :
          LET r == oitm_df.rows[i]
          IN  /\ r["Variable_norm"] # <<>>
              /\ \A m \in DOMAIN vpl_df.rows :
                    vpl_df.rows[m]["Lookup_Key_4"] # r["Lookup_Key_4_Mapped"]
              /\ k < j
              /\ SameStyleColorMappedSize(r, vpl_df.rows[j])
              /\ SameStyleColorMappedSize(r, vpl_df.rows[k])
              /\ Variantless(vpl_df.rows[j])
              /\ ~Variantless(vpl_df.rows[k])
              /\ notna(r["Price"])
              /\ r["Price"] = vpl_df.rows[j]["Price"]
              /\ r["Price"] # vpl_df.rows[k]["Price"]

\* C5: an internal item whose code has fewer than 3 segments is never matched
\* and never receives a price, whatever rows the vendor table holds.
C5_UnparseableNeverMatched ==
    pc = "matched" =>
        \A i \in DOMAIN oitm_df.rows :
            Count(Str(oitm_df.rows[i]["Item No."]), "-") < 2
                => isna(oitm_df.rows[i]["Price"])

\* C6: two internal items whose (style, color, size, variant) are equal after
\* uppercasing and trimming get the same lookup keys and the same match
\* outcome, items of the styles of the size-rule list included.
C6_EqualNormalizedSameOutcome ==
    pc = "matched" =>
        \A i, j \in DOMAIN oitm_df.rows :
            LET a == oitm_df.rows[i]
                b == oitm_df.rows[j]
            IN  (/\ a["Style_norm"] = b["Style_norm"]
                 /\ a["Color_norm"] = b["Color_norm"]
                 /\ a["Size_norm"] = b["Size_norm"]
                 /\ a["Variable_norm"] = b["Variable_norm"])
                => /\ a["Lookup_Key_4_Mapped"] = b["Lookup_Key_4_Mapped"]
                   /\ a["Lookup_Key_3_Mapped"] = b["Lookup_Key_3_Mapped"]
                   /\ a["Price"] = b["Price"]

\* the cell denotes no variant: blank, or NONE / NAN in some letter case
NoValueVariant(cell) == UpperStrip(FillNa(cell)) \in {<<>>, s_NONE, s_NAN}

\* C11: in price mode a variant NONE or NAN in any letter case, on a vendor
\* row or parsed from an item code, is treated as absent: the row's 4-part key
\* is the key it would have with a missing variant, and two items that differ
\* only in how they spell the absent variant get the same price.
C11_NoValueVariantAbsent ==
    pc = "matched" =>
        /\ \A j \in DOMAIN vpl_df.rows :
              LET v == vpl_df.rows[j]
              IN  NoValueVariant(v["Variable"])
                      => v["Lookup_Key_4"] = v["Lookup_Key_3"] \o <<"|">>
        /\ \A i \in DOMAIN oitm_df.rows :
              LET r == oitm_df.rows[i]
              IN  NoValueVariant(r["Variable"])
                      => r["Lookup_Key_4_Mapped"] = r["Lookup_Key_3_Mapped"] \o <<"|">>
        /\ \A i, j \in DOMAIN oitm_df.rows :
              LET a == oitm_df.rows[i]
                  b == oitm_df.rows[j]
              IN  (/\ a["Style_norm"] = b["Style_norm"]
                   /\ a["Color_norm"] = b["Color_norm"]
                   /\ a["Size_Mapped_norm"] = b["Size_Mapped_norm"]
                   /\ NoValueVariant(a["Variable"])
                   /\ NoValueVariant(b["Variable"]))
                  => a["Price"] = b["Price"]

\* C15: match_prices is pure: after the call the internal table and the
\* vendor table passed in hold exactly the rows and fields they held before.
C15_MatchPricesPure ==
    pc = "matched" =>
        /\ oitm_df = args.oitm_df
        /\ vpl_df = args.vpl_df

\* the last row of the table whose column col holds key
LastRowWith(df, col, key) ==
    df.rows[CHOOSE j \in DOMAIN df.rows :
               /\ df.rows[j][col] = key
               /\ \A k \in DOMAIN df.rows : df.rows[k][col] = key => k <= j]

\* C17: when several vendor rows have the same key within a tier, the price
\* stored for the key is the price of the last such row in table order,
\* independently in each tier: an item whose 4-part key some vendor row has
\* gets the price of the last such row when that price is present, and an
\* item whose 4-part key no vendor row has gets the price of the last row
\* with its 3-part key.
C17_LastRowOfKeyWins ==
    pc = "matched" =>
        /\ \A j \in DOMAIN vpl_df.rows :
              LET v == vpl_df.rows[j]
              IN  /\ price_lookup_4(vpl_df)[v["Lookup_Key_4"]]
                        = LastRowWith(vpl_df, "Lookup_Key_4", v["Lookup_Key_4"])["Price"]
                  /\ price_lookup_3(vpl_df)[v["Lookup_Key_3"]]
                        = LastRowWith(vpl_df, "Lookup_Key_3", v["Lookup_Key_3"])["Price"]
        /\ \A i \in DOMAIN oitm_df.rows :
              LET r == oitm_df.rows[i]
                  hit4 == \E j \in DOMAIN vpl_df.rows :
                              vpl_df.rows[j]["Lookup_Key_4"] = r["Lookup_Key_4_Mapped"]
                  hit3 == \E j \in DOMAIN vpl_df.rows :
                              vpl_df.rows[j]["Lookup_Key_3"] = r["Lookup_Key_3_Mapped"]
              IN  /\ (hit4 /\ notna(LastRowWith(vpl_df, "Lookup_Key_4", r["Lookup_Key_4_Mapped"])["Price"]))
                        => r["Price"] = LastRowWith(vpl_df, "Lookup_Key_4", r["Lookup_Key_4_Mapped"])["Price"]
                  /\ (~hit4 /\ hit3)
                        => r["Price"] = LastRowWith(vpl_df, "Lookup_Key_3", r["Lookup_Key_3_Mapped"])["Price"]

\* two vendor rows with one 4-part key and different prices: the call
\* completed, an item with that key got the price of the second row, and an
\* item with another variant got the second row's price by the 3-part key
C17_Witness ==
    /\ pc = "matched"
    /\ Len(vpl_df.rows) = 2
    /\ vpl_df.rows[1]["Lookup_Key_4"] = vpl_df.rows[2]["Lookup_Key_4"]
    /\ notna(vpl_df.rows[1]["Price"])
    /\ notna(vpl_df.rows[2]["Price"])
    /\ vpl_df.rows[1]["Price"] # vpl_df.rows[2]["Price"]
    /\ \E i \in DOMAIN oitm_df.rows :
          /\ oitm_df.rows[i]["Lookup_Key_4_Mapped"] = vpl_df.rows[2]["Lookup_Key_4"]
          /\ oitm_df.rows[i]["Price"] = vpl_df.rows[2]["Price"]
    /\ \E i \in DOMAIN oitm_df.rows :
          /\ oitm_df.rows[i]["Lookup_Key_4_Mapped"] # vpl_df.rows[2]["Lookup_Key_4"]
          /\ oitm_df.rows[i]["Lookup_Key_3_Mapped"] = vpl_df.rows[2]["Lookup_Key_3"]
          /\ oitm_df.rows[i]["Price"] = vpl_df.rows[2]["Price"]

\* C18: the size mapping is applied to the internal items only: the vendor
\* rows keep their sizes and their keys are built from them; both keys of an
\* internal item are built from its mapped size; an item whose size the
\* mapping rewrote is priced only where a vendor row carries its style, its
\* color and the mapped size, and is priced where such rows exist and all of
\* them have a price.
C18_SizeMappingInternalOnly ==
    pc = "matched" =>
        /\ Len(vpl_df.rows) = Len(args.vpl_df.rows)
        /\ \A j \in DOMAIN vpl_df.rows :
              LET v == vpl_df.rows[j]
                  size == UpperStrip(args.vpl_df.rows[j]["Size"])
              IN  /\ v["Size"] = args.vpl_df.rows[j]["Size"]
                  /\ v["Lookup_Key_3"] = UpperStrip(v["Vendor Style"]) \o <<"|">>
                                            \o UpperStrip(v["Color"]) \o <<"|">> \o size
                  /\ v["Lookup_Key_4"] = v["Lookup_Key_3"] \o <<"|">>
                                            \o UpperStrip(FillNa(v["Variable"]))
        /\ \A i \in DOMAIN oitm_df.rows :
              LET r == oitm_df.rows[i]
                  mapped == UpperStrip(apply_conditional_size_mapping(r, args.styles_using_g_sizes))
                  same3 == {j \in DOMAIN vpl_df.rows :
                               /\ UpperStrip(vpl_df.rows[j]["Vendor Style"]) = UpperStrip(r["Style"])
                               /\ UpperStrip(vpl_df.rows[j]["Color"]) = UpperStrip(r["Color"])
                               /\ UpperStrip(vpl_df.rows[j]["Size"]) = mapped}
              IN  /\ r["Lookup_Key_3_Mapped"] = UpperStrip(r["Style"]) \o <<"|">>
                                            \o UpperStrip(r["Color"]) \o <<"|">> \o mapped
                  /\ r["Lookup_Key_4_Mapped"] = r["Lookup_Key_3_Mapped"] \o <<"|">>
                                            \o UpperStrip(FillNa(r["Variable"]))
                  /\ r["Size_Mapped"] # r["Size"] =>
                        /\ same3 = {} => isna(r["Price"])
                        /\ (same3 # {} /\ \A j \in same3 : notna(vpl_df.rows[j]["Price"]))
                              => notna(r["Price"])

\* item 2278-RED-L beside a vendor row of size L and a vendor row of size LG:
\* the item's size was mapped to LG and it got the price of the LG row
C18_Witness ==
    /\ pc = "matched"
    /\ \E i \in DOMAIN oitm_df.rows : \E j, k \in DOMAIN vpl_df.rows :
          LET r == oitm_df.rows[i]
              lg == vpl_df.rows[j]
              l == vpl_df.rows[k]
          IN  /\ r["Style"] = s_2278
              /\ r["Size"] = s_L
              /\ r["Size_Mapped"] = s_LG
              /\ lg["Vendor Style"] = s_2278 /\ lg["Color"] = r["Color"] /\ lg["Size"] = s_LG
              /\ l["Vendor Style"] = s_2278 /\ l["Color"] = r["Color"] /\ l["Size"] = s_L
              /\ notna(r["Price"])
              /\ r["Price"] = lg["Price"]
              /\ r["Price"] # l["Price"]

-----------------------------------------------------------------------------
(* vendor_price_matcher: process_vendor, create_output_file,                 *)
(* create_summary_report, find_file_pairs, main.  A file is a record         *)
(* [stem, df]: its name without the .xlsx suffix and the table read_excel    *)
(* reads from it, or Unreadable when read_excel raises an exception.         *)
(* match_rate, a float that is only printed, is left out of the result.      *)

\* sum of F(x) over the elements of a sequence
SumSeq(seq, F(_)) ==
    LET sum[i \in 0..Len(seq)] == IF i = 0 THEN 0 ELSE sum[i - 1] + F(seq[i])
    IN  sum[Len(seq)]

\* df[mask]: the rows that pass the test, in table order
FilterRows(df, Test(_)) == SelectSeq(df.rows, Test)

\* oitm_file.stem.split('_')[0]
VendorName(file) == Split(file.stem, "_")[1]

s_xlsx == <<".", "x", "l", "s", "x">>

\* file.name
FileName(file) == file.stem \o s_xlsx

\* what a file holds when pd.read_excel raises an exception on it
Unreadable == [error |-> "read_excel"]

ReadFails(file) == "error" \in DOMAIN file.df

\* find_file_pairs on the two glob listings: each internal file, in listing
\* order, with the first vendor file whose name holds its vendor code in any
\* letter case; an internal file without such a vendor file is left out
find_file_pairs(oitm_files, vpl_files) ==
    LET Matching(oitm_file) ==
            {j \in DOMAIN vpl_files :
                Contains(Lower(FileName(vpl_files[j])), Lower(VendorName(oitm_file)))}
        matching_vpl(oitm_file) ==
            vpl_files[CHOOSE j \in Matching(oitm_file) : \A k \in Matching(oitm_file) : j <= k]
        paired == SelectSeq(oitm_files, LAMBDA oitm_file : Matching(oitm_file) # {})
    IN  [i \in DOMAIN paired |-> <<paired[i], matching_vpl(paired[i])>>]

s_OITM_Updated_xlsx ==
    <<"_", "O", "I", "T", "M", "_", "U", "p", "d", "a", "t", "e", "d", ".", "x", "l", "s", "x">>

\* create_output_file: the file name (line 155) and the rows under the two header rows
OutputPath(vendor_name) == vendor_name \o s_OITM_Updated_xlsx

OutputRows(oitm_filtered) ==
    [i \in DOMAIN oitm_filtered |-> <<oitm_filtered[i]["Item No."], oitm_filtered[i]["Price"]>>]

\* a removed-items list that names each removed Item No. once
RemovedItemsUnique(matched_df) ==
    LET removed == FilterRows(matched_df, LAMBDA row : isna(row["Price"]))
        first == SelectSeq([i \in DOMAIN removed |-> i],
                           LAMBDA i : \A j \in 1..(i - 1) : removed[j]["Item No."] # removed[i]["Item No."])
    IN  [k \in DOMAIN first |-> removed[first[k]]["Item No."]]

\* line 267: oitm_df[oitm_df['Price'].isna()]['Item No.'].tolist()
RemovedItems(matched_df) ==
    LET removed == FilterRows(matched_df, LAMBDA row : isna(row["Price"]))
    IN  [i \in DOMAIN removed |-> removed[i]["Item No."]]

RequiredVplCols == {"Vendor Style", "Color", "Size", "Variable", "Price"}

\* lines 244-252: the column validation passes
ColumnsValid(oitm_file, vpl_file) ==
    /\ "Item No." \in oitm_file.df.columns
    /\ RequiredVplCols \subseteq vpl_file.df.columns

\* lines 257-293: the result dictionary of a pair whose columns are valid
VendorResult(oitm_file, matched_df) ==
    LET total_skus == Len(matched_df.rows)
        matched_skus == Len(FilterRows(matched_df, LAMBDA row : notna(row["Price"])))
        removed_skus == total_skus - matched_skus
        size_mapped_count ==
            Len(FilterRows(matched_df,
                    LAMBDA row : notna(row["Price"]) /\ row["Size"] # row["Size_Mapped"]))
    IN  [vendor |-> VendorName(oitm_file),
         total_skus |-> total_skus,
         matched_skus |-> matched_skus,
         removed_skus |-> removed_skus,
         size_mapped |-> size_mapped_count,
         output_file |-> OutputPath(VendorName(oitm_file)),
         removed_items |-> RemovedItems(matched_df)]

\* a summary whose totals skip the vendors without removed items
create_summary_report_skipping(results_in) ==
    LET counted == SelectSeq(results_in, LAMBDA r : r.removed_items # <<>>)
        total_skus_all == SumSeq(counted, LAMBDA r : r.total_skus)
        total_matched_all == SumSeq(counted, LAMBDA r : r.matched_skus)
    IN  [summary |-> [i \in DOMAIN results_in |->
                        [vendor |-> results_in[i].vendor,
                         total_skus |-> results_in[i].total_skus,
                         matched_skus |-> results_in[i].matched_skus,
                         size_mapped |-> results_in[i].size_mapped,
                         removed_skus |-> results_in[i].removed_skus,
                         output_file |-> results_in[i].output_file]],
         total |-> [total_skus |-> total_skus_all,
                    matched_skus |-> total_matched_all,
                    removed_skus |-> total_skus_all - total_matched_all],
         removed |-> <<>>]

\* the rows of sheet 2 from result i on: one row per removed item of each vendor
RECURSIVE RemovedSheet(_, _)
RemovedSheet(results_in, i) ==
    IF i > Len(results_in) THEN <<>>
    ELSE [k \in DOMAIN results_in[i].removed_items |->
             <<results_in[i].vendor, results_in[i].removed_items[k]>>]
         \o RemovedSheet(results_in, i + 1)

\* create_summary_report: the per-vendor rows and the TOTAL row of sheet 1
\* (lines 352-380) and the removed items of sheet 2 (lines 421-444)
create_summary_report(results_in) ==
    LET total_skus_all == SumSeq(results_in, LAMBDA r : r.total_skus)
        total_matched_all == SumSeq(results_in, LAMBDA r : r.matched_skus)
    IN  [summary |-> [i \in DOMAIN results_in |->
                        [vendor |-> results_in[i].vendor,
                         total_skus |-> results_in[i].total_skus,
                         matched_skus |-> results_in[i].matched_skus,
                         size_mapped |-> results_in[i].size_mapped,
                         removed_skus |-> results_in[i].removed_skus,
                         output_file |-> results_in[i].output_file]],
         total |-> [total_skus |-> total_skus_all,
                    matched_skus |-> total_matched_all,
                    removed_skus |-> total_skus_all - total_matched_all],
         removed |-> RemovedSheet(results_in, 1)]

\* process_vendor: the value returned (<<>> for None, <<result>> for a result
\* dictionary), the two tables as it leaves them and the output directory
process_vendor(oitm_file, vpl_file, dir, styles_using_g_sizes) ==
    IF ReadFails(oitm_file)
    THEN [result |-> <<>>, oitm_df |-> NoFrame, vpl_df |-> NoFrame, output_dir |-> dir]
    ELSE IF ReadFails(vpl_file)
    THEN [result |-> <<>>, oitm_df |-> oitm_file.df, vpl_df |-> NoFrame, output_dir |-> dir]
    ELSE IF ColumnsValid(oitm_file, vpl_file)
    THEN LET matched_df == match_prices(oitm_file.df, vpl_file.df, styles_using_g_sizes)
             result == VendorResult(oitm_file, matched_df)
             oitm_filtered == FilterRows(matched_df, LAMBDA row : notna(row["Price"]))
         IN  [result |-> <<result>>,
              oitm_df |-> matched_df,
              vpl_df |-> match_prices_vpl_df(vpl_file.df),
              output_dir |-> (result.output_file :> OutputRows(oitm_filtered)) @@ dir]
    ELSE [result |-> <<>>, oitm_df |-> oitm_file.df, vpl_df |-> vpl_file.df, output_dir |-> dir]

\* file names and tables of the batches drawn
s_V1_OITM == <<"V", "1", "_", "O", "I", "T", "M">>
s_V1_OITM_B == <<"V", "1", "_", "O", "I", "T", "M", "_", "B">>
s_V2_OITM == <<"V", "2", "_", "O", "I", "T", "M">>
s_V3_OITM == <<"V", "3", "_", "O", "I", "T", "M">>
s_V4_OITM == <<"V", "4", "_", "O", "I", "T", "M">>
s_V5_OITM == <<"V", "5", "_", "O", "I", "T", "M">>
s_V1_VPL == <<"V", "1", "_", "V", "P", "L">>
s_V2_VPL == <<"V", "2", "_", "V", "P", "L">>
s_V3_VPL == <<"V", "3", "_", "V", "P", "L">>
s_V4_VPL == <<"V", "4", "_", "D", "T", "W">>
s_V5_VPL == <<"V", "5", "_", "V", "P", "L">>

OitmFile(stem, column, items) ==
    [stem |-> stem,
     df |-> [columns |-> {column}, rows |-> [i \in DOMAIN items |-> column :> items[i]]]]

VplFile(stem, rows) == [stem |-> stem, df |-> [columns |-> VplColumns, rows |-> rows]]

\* a vendor file without the Variable column
VplFileNoVariable(stem, rows) ==
    [stem |-> stem,
     df |-> [columns |-> VplColumns \ {"Variable"},
             rows |-> [i \in DOMAIN rows |->
                          [c \in VplColumns \ {"Variable"} |-> rows[i][c]]]]]

i_A_RED_M_1 == Join(<<s_A, s_RED, s_M, <<"1">>>>, "-")
i_A_RED_M_2 == Join(<<s_A, s_RED, s_M, <<"2">>>>, "-")
i_A_RED_M == Join(<<s_A, s_RED, s_M>>, "-")
i_A_RED == Join(<<s_A, s_RED>>, "-")
i_2278_RED_L == Join(<<s_2278, s_RED, s_L>>, "-")

v_a_red_m_1 == VplRow(<<" ", "a">>, <<"r", "e", "d", " ">>, <<"m">>, <<"1">>, p_10)
v_A_RED_M == VplRow(s_A, s_RED, s_M, NaN, p_8)
v_2278_RED_LG == VplRow(s_2278, s_RED, s_LG, NaN, p_9)

s_V6_OITM == <<"V", "6", "_", "O", "I", "T", "M">>
s_V6_VPL == <<"V", "6", "_", "V", "P", "L">>

\* the internal files drawn: two vendors with matches, a second internal file
\* of vendor V1, a file without 'Item No.', the file of a vendor whose table
\* lacks 'Variable', the file of a vendor whose table matches none of its
\* items, and a file read_excel fails on
PriceOitmFiles ==
    {OitmFile(s_V1_OITM, "Item No.", <<i_A_RED_M_1, i_A_RED_M_2>>),
     OitmFile(s_V1_OITM_B, "Item No.", <<i_A_RED_M, i_2278_RED_L>>),
     OitmFile(s_V2_OITM, "Item No.", <<i_2278_RED_L, i_A_RED>>),
     OitmFile(s_V3_OITM, "ItemCode", <<i_A_RED_M>>),
     OitmFile(s_V4_OITM, "Item No.", <<i_A_RED_M>>),
     OitmFile(s_V5_OITM, "Item No.", <<i_A_RED_M_2, i_A_RED_M_2>>),
     [stem |-> s_V6_OITM, df |-> Unreadable]}

\* the listing of all vendor files drawn: the *VPL* files, then the *DTW* file
PriceVplListing ==
    <<VplFile(s_V1_VPL, <<v_a_red_m_1, v_A_RED_M>>),
      VplFile(s_V2_VPL, <<v_2278_RED_LG>>),
      VplFile(s_V3_VPL, <<v_A_RED_M>>),
      VplFile(s_V5_VPL, <<v_2278_RED_LG>>),
      VplFile(s_V6_VPL, <<v_A_RED_M>>),
      VplFileNoVariable(s_V4_VPL, <<v_A_RED_M>>)>>

\* a listing without its i-th file
Without(listing, i) ==
    [k \in 1..(Len(listing) - 1) |-> IF k < i THEN listing[k] ELSE listing[k + 1]]

\* most internal files of an input directory drawn
MaxPairs == 2

\* the input directories drawn: up to MaxPairs internal files in some listing
\* order, and all vendor files or all but one
PriceDirs ==
    [oitm_files : {l \in SeqsOf(PriceOitmFiles, 0, MaxPairs) :
                      \A i, j \in DOMAIN l : i # j => l[i] # l[j]},
     vpl_files : {PriceVplListing} \cup
                 {Without(PriceVplListing, i) : i \in DOMAIN PriceVplListing}]

InitBatch ==
    /\ pc = "main"
    /\ \E dir \in PriceDirs :
          args = [styles_using_g_sizes |-> STYLES_USING_G_SIZES,
                  oitm_files |-> dir.oitm_files, vpl_files |-> dir.vpl_files]
    /\ ret = <<>>
    /\ oitm_df = NoFrame
    /\ vpl_df = NoFrame
    /\ file_pairs = <<>>
    /\ idx = 0
    /\ results = <<>>
    /\ output_dir = <<>>
    /\ report = <<>>

\* main, lines 491-500: the pairs are discovered; without pairs main returns,
\* otherwise the loop starts
StartMain ==
    /\ pc = "main"
    /\ file_pairs' = find_file_pairs(args.oitm_files, args.vpl_files)
    /\ pc' = IF file_pairs' = <<>> THEN "done" ELSE "process_vendor"
    /\ UNCHANGED <<args, ret, oitm_df, vpl_df, idx, results, output_dir, report>>

\* a loop that gives up the remaining pairs when a pair fails
ProcessVendorAborting ==
    /\ pc = "process_vendor"
    /\ idx < Len(file_pairs)
    /\ LET pair == file_pairs[idx + 1]
           out == process_vendor(pair[1], pair[2], output_dir, args.styles_using_g_sizes)
       IN  /\ ret' = out.result
           /\ oitm_df' = out.oitm_df
           /\ vpl_df' = out.vpl_df
           /\ output_dir' = out.output_dir
           /\ results' = IF out.result # <<>> THEN results \o out.result ELSE results
           /\ idx' = IF out.result # <<>> THEN idx + 1 ELSE Len(file_pairs)
    /\ UNCHANGED <<pc, args, file_pairs, report>>

\* main, lines 504-507: one turn of the loop over the pairs
ProcessVendor ==
    /\ pc = "process_vendor"
    /\ idx < Len(file_pairs)
    /\ LET pair == file_pairs[idx + 1]
           out == process_vendor(pair[1], pair[2], output_dir, args.styles_using_g_sizes)
       IN  /\ ret' = out.result
           /\ oitm_df' = out.oitm_df
           /\ vpl_df' = out.vpl_df
           /\ output_dir' = out.output_dir
           /\ results' = IF out.result # <<>> THEN results \o out.result ELSE results
    /\ idx' = idx + 1
    /\ UNCHANGED <<pc, args, file_pairs, report>>

\* main, lines 510-529: the summary report of the pairs that succeeded
CreateSummaryReport ==
    /\ pc = "process_vendor"
    /\ idx = Len(file_pairs)
    /\ results # <<>>
    /\ report' = <<create_summary_report(results)>>
    /\ pc' = "done"
    /\ UNCHANGED <<args, ret, oitm_df, vpl_df, file_pairs, idx, results, output_dir>>

\* main, lines 530-531: no pair succeeded
NoVendorsProcessed ==
    /\ pc = "process_vendor"
    /\ idx = Len(file_pairs)
    /\ results = <<>>
    /\ pc' = "done"
    /\ UNCHANGED <<args, ret, oitm_df, vpl_df, file_pairs, idx, results, output_dir, report>>

NextBatch ==
    \/ StartMain
    \/ ProcessVendor
    \/ CreateSummaryReport
    \/ NoVendorsProcessed

SpecBatch == InitBatch /\ [][NextBatch]_vars

\* C4: every internal item of a processed pair is in exactly one of the
\* matched rows (the output file) and the removed items; per vendor
\* total_skus = matched_skus + removed_skus and the removed-items list has
\* removed_skus entries; the TOTAL row of the summary holds the sums of the
\* per-vendor total, matched and removed counts.
C4_MatchedRemovedPartition ==
    /\ ret # <<>> =>
        LET result == ret[1]
            written == output_dir[result.output_file]
        IN  /\ result.total_skus = Len(oitm_df.rows)
            /\ result.total_skus = result.matched_skus + result.removed_skus
            /\ Len(result.removed_items) = result.removed_skus
            /\ Len(written) = result.matched_skus
            /\ \A i \in DOMAIN oitm_df.rows :
                  LET item == oitm_df.rows[i]["Item No."]
                      matched == \E k \in DOMAIN written : written[k][1] = item
                      removed == \E k \in DOMAIN result.removed_items :
                                    result.removed_items[k] = item
                  IN  /\ matched # removed
                      /\ matched <=> notna(oitm_df.rows[i]["Price"])
    /\ report # <<>> =>
        /\ report[1].total.total_skus = SumSeq(results, LAMBDA r : r.total_skus)
        /\ report[1].total.matched_skus = SumSeq(results, LAMBDA r : r.matched_skus)
        /\ report[1].total.removed_skus = SumSeq(results, LAMBDA r : r.removed_skus)
        /\ Len(report[1].removed) = report[1].total.removed_skus

\* the summary of a batch of two processed vendors has been written, one with
\* a removed item and with a matched one
C4_Witness ==
    /\ report # <<>>
    /\ Len(results) = 2
    /\ ret # <<>>
    /\ ret[1].matched_skus = 1
    /\ ret[1].removed_skus = 1
    /\ report[1].total.removed_skus >= 1
    /\ report[1].total.matched_skus >= 2

-----------------------------------------------------------------------------
(* find_discontinued_items.  The vendor table of this script, dtw_df, is     *)
(* held in vpl_df.  A column name is a TLA+ string: str(col).lower().strip() *)
(* is tabulated for the header spellings drawn.                              *)

\* str(col).lower().strip() of the headers drawn
ColumnLowerStrip(col) ==
    CASE col = "Vendor Style" -> "vendor style"
      [] col = "Color" -> "color"
      [] col = "COLOR " -> "color"
      [] col = "Size" -> "size"
      [] col = "Variable" -> "variable"
      [] col = "Style Name" -> "style name"
      [] col = "STYLE NAME" -> "style name"
      [] col = "StyleName" -> "stylename"
      [] col = "Price" -> "price"
      [] OTHER -> col

\* column_mappings, lines 80-87
column_mappings ==
    ("vendor style" :> "Vendor Style") @@ ("color" :> "Color") @@ ("size" :> "Size") @@
    ("variable" :> "Variable") @@ ("style name" :> "Style Name") @@
    ("stylename" :> "Style Name")

\* normalize_dtw_columns: the headers that match a standard name
\* case-insensitively are renamed to it
normalize_dtw_columns(dtw_df) ==
    LET Standard(col) ==
            IF ColumnLowerStrip(col) \in DOMAIN column_mappings
            THEN column_mappings[ColumnLowerStrip(col)]
            ELSE col
        Actual(name) == CHOOSE col \in dtw_df.columns : Standard(col) = name
        renamed == {Standard(col) : col \in dtw_df.columns}
    IN  [columns |-> renamed,
         rows |-> [i \in DOMAIN dtw_df.rows |->
                      [name \in renamed |-> dtw_df.rows[i][Actual(name)]]]]

\* lines 129-146: the column validation passes
DiscColumnsValid(oitm_read, dtw_normalized) ==
    /\ "ItemCode" \in oitm_read.columns
    /\ "Style Name" \in dtw_normalized.columns
    /\ {"Vendor Style", "Color", "Size"} \subseteq dtw_normalized.columns

\* lines 150-158: the parsed fields and the Lookup_Key of the internal items
DiscOitmKeyed(df) ==
    WithColumns(
        WithColumns(df, {"Style", "Color", "Size", "Variable"},
            LAMBDA row : LET t == parse_item_no_fd(row["ItemCode"])
                         IN  ("Style" :> t[1]) @@ ("Color" :> t[2]) @@
                             ("Size" :> t[3]) @@ ("Variable" :> t[4])),
        {"Lookup_Key"},
        LAMBDA row : "Lookup_Key" :>
            create_lookup_key(row["Style"], row["Color"], row["Size"], row["Variable"]))

\* lines 161-173: the Variable column when missing, and the Lookup_Key of the vendor rows
DtwKeyed(df) ==
    WithColumns(
        IF "Variable" \in df.columns THEN df
        ELSE WithColumns(df, {"Variable"}, LAMBDA row : "Variable" :> None),
        {"Lookup_Key"},
        LAMBDA row : "Lookup_Key" :>
            create_lookup_key(row["Vendor Style"], row["Color"], row["Size"], row["Variable"]))

s_DISCONTINUED == <<"D", "I", "S", "C", "O", "N", "T", "I", "N", "U", "E", "D">>

\* a filter that finds the marker in capitals only
DiscontinuedDtwCaseSensitive(dtw_keyed) ==
    FilterRows(dtw_keyed, LAMBDA row : Contains(Str(row["Style Name"]), s_DISCONTINUED))

\* lines 177-178: the vendor rows whose Style Name holds the marker
DiscontinuedDtw(dtw_keyed) ==
    FilterRows(dtw_keyed, LAMBDA row : Contains(Upper(Str(row["Style Name"])), s_DISCONTINUED))

\* the first three '|'-separated fields of a lookup key
Key3Of(key) == Join(SubSeq(Split(key, "|"), 1, 3), "|")

\* a join that falls back to the 3-part key, as the price matcher does
OitmToDeactivateWithFallback(oitm_keyed, discontinued_dtw) ==
    LET discontinued_lookup_keys ==
            {discontinued_dtw[j]["Lookup_Key"] : j \in DOMAIN discontinued_dtw}
    IN  FilterRows(oitm_keyed,
            LAMBDA row : \/ row["Lookup_Key"] \in discontinued_lookup_keys
                         \/ Key3Of(row["Lookup_Key"]) \in discontinued_lookup_keys)

\* lines 193-194: the internal items whose key is a discontinued key
OitmToDeactivate(oitm_keyed, discontinued_dtw) ==
    LET discontinued_lookup_keys ==
            {discontinued_dtw[j]["Lookup_Key"] : j \in DOMAIN discontinued_dtw}
    IN  FilterRows(oitm_keyed, LAMBDA row : row["Lookup_Key"] \in discontinued_lookup_keys)

s_DEACTIVATE_DTW_xlsx ==
    <<"_", "D", "E", "A", "C", "T", "I", "V", "A", "T", "E", "_", "D", "T", "W",
      ".", "x", "l", "s", "x">>

\* line 277
DeactivatePath(vendor_name) == vendor_name \o s_DEACTIVATE_DTW_xlsx

\* lines 259-260: the rows under the two header rows
DeactivateRows(oitm_to_deactivate) ==
    [i \in DOMAIN oitm_to_deactivate |-> <<oitm_to_deactivate[i]["ItemCode"], "Y", "N">>]

\* find_discontinued_items: the value returned (<<>> for None, <<result>> for a
\* result dictionary), the two tables as it leaves them and the output directory
find_discontinued_items(oitm_file, dtw_file, dir) ==
    IF ReadFails(oitm_file)
    THEN [result |-> <<>>, oitm_df |-> NoFrame, vpl_df |-> NoFrame, output_dir |-> dir]
    ELSE IF ReadFails(dtw_file)
    THEN [result |-> <<>>, oitm_df |-> oitm_file.df, vpl_df |-> NoFrame, output_dir |-> dir]
    ELSE
    LET vendor_name == VendorName(oitm_file)
        dtw_normalized == normalize_dtw_columns(dtw_file.df)
    IN  IF ~DiscColumnsValid(oitm_file.df, dtw_normalized)
        THEN [result |-> <<>>, oitm_df |-> oitm_file.df, vpl_df |-> dtw_normalized,
              output_dir |-> dir]
        ELSE
        LET oitm_keyed == DiscOitmKeyed(oitm_file.df)
            dtw_keyed == DtwKeyed(dtw_normalized)
            discontinued_dtw == DiscontinuedDtw(dtw_keyed)
            oitm_to_deactivate == OitmToDeactivate(oitm_keyed, discontinued_dtw)
        IN  IF Len(discontinued_dtw) = 0
            THEN [result |-> <<[vendor |-> vendor_name,
                                total_oitm |-> Len(oitm_keyed.rows),
                                discontinued_in_dtw |-> 0,
                                matched_to_deactivate |-> 0,
                                output_file |-> None]>>,
                  oitm_df |-> oitm_keyed, vpl_df |-> dtw_keyed, output_dir |-> dir]
            ELSE IF Len(oitm_to_deactivate) = 0
            THEN [result |-> <<[vendor |-> vendor_name,
                                total_oitm |-> Len(oitm_keyed.rows),
                                discontinued_in_dtw |-> Len(discontinued_dtw),
                                matched_to_deactivate |-> 0,
                                output_file |-> None]>>,
                  oitm_df |-> oitm_keyed, vpl_df |-> dtw_keyed, output_dir |-> dir]
            ELSE [result |-> <<[vendor |-> vendor_name,
                                total_oitm |-> Len(oitm_keyed.rows),
                                discontinued_in_dtw |-> Len(discontinued_dtw),
                                matched_to_deactivate |-> Len(oitm_to_deactivate),
                                output_file |-> DeactivatePath(vendor_name),
                                items_list |-> [i \in DOMAIN oitm_to_deactivate |->
                                                   oitm_to_deactivate[i]["ItemCode"]]]>>,
                  oitm_df |-> oitm_keyed, vpl_df |-> dtw_keyed,
                  output_dir |-> (DeactivatePath(vendor_name) :>
                                      DeactivateRows(oitm_to_deactivate)) @@ dir]

\* the ItemCode cells of the internal tables drawn:
\* A-RED-M-1, A-RED-M-2, A-RED-M, 2278-RED-L, A-RED-M-none
DiscItemCodes ==
    {i_A_RED_M_1, i_A_RED_M_2, i_A_RED_M, i_2278_RED_L,
     Join(<<s_A, s_RED, s_M, s_none>>, "-")}

DtwRow(style, color, size, variable, style_name) ==
    ("Vendor Style" :> style) @@ ("Color" :> color) @@ ("Size" :> size) @@
    ("Variable" :> variable) @@ ("Style Name" :> style_name)

n_Tee == <<"T", "e", "e">>
n_Tee_Discontinued ==
    <<"T", "e", "e", " ", "-", " ", "D", "i", "s", "c", "o", "n", "t", "i", "n", "u", "e", "d">>

\* the vendor rows drawn (a blank cell is NaN)
DtwRows ==
    {DtwRow(s_A, s_RED, s_M, NaN, n_Tee_Discontinued),
     DtwRow(<<" ", "a">>, <<"r", "e", "d", " ">>, <<"m">>, <<"1">>, s_DISCONTINUED),
     DtwRow(s_A, s_RED, s_M, <<"2">>, n_Tee),
     DtwRow(s_2278, s_RED, s_LG, NaN, n_Tee_Discontinued)}

DtwColumns == {"Vendor Style", "Color", "Size", "Variable", "Style Name"}

\* the internal files drawn hold at least one item
DiscOitmFiles ==
    {OitmFile(s_V1_OITM, "ItemCode", items) : items \in SeqsOf(DiscItemCodes, 1, MaxOitmRows)}

\* the vendor files drawn hold at least one row; their headers are the
\* standard ones, or lack Variable and spell the name column 'STYLE NAME'
DtwFiles ==
    {[stem |-> s_V4_VPL, df |-> [columns |-> DtwColumns, rows |-> rows]] :
        rows \in SeqsOf(DtwRows, 1, MaxVplRows)}
    \cup
    {[stem |-> s_V4_VPL,
      df |-> [columns |-> {"Vendor Style", "Color", "Size", "STYLE NAME"},
              rows |-> [i \in DOMAIN rows |->
                           ("Vendor Style" :> rows[i]["Vendor Style"]) @@
                           ("Color" :> rows[i]["Color"]) @@
                           ("Size" :> rows[i]["Size"]) @@
                           ("STYLE NAME" :> rows[i]["Style Name"])]]] :
        rows \in SeqsOf(DtwRows, 1, MaxVplRows)}

InitDisc ==
    /\ pc = "find_discontinued_items"
    /\ args \in [oitm_file : DiscOitmFiles, dtw_file : DtwFiles]
    /\ ret = <<>>
    /\ Idle

\* the call find_discontinued_items(oitm_file, dtw_file, output_dir)
FindDiscontinuedItems ==
    /\ pc = "find_discontinued_items"
    /\ LET out == find_discontinued_items(args.oitm_file, args.dtw_file, output_dir)
       IN  /\ ret' = out.result
           /\ oitm_df' = out.oitm_df
           /\ vpl_df' = out.vpl_df
           /\ output_dir' = out.output_dir
    /\ pc' = "found"
    /\ UNCHANGED <<args, file_pairs, idx, results, report>>

NextDisc == FindDiscontinuedItems

SpecDisc == InitDisc /\ [][NextDisc]_vars

\* the ItemCode cells of the deactivation file written, in file order
Flagged ==
    IF ret # <<>> /\ ret[1].output_file # None
    THEN [k \in DOMAIN output_dir[ret[1].output_file] |-> output_dir[ret[1].output_file][k][1]]
    ELSE <<>>

\* the vendor row's Style Name holds DISCONTINUED in some letter case
HasMarker(v) == Contains(Upper(Str(v["Style Name"])), s_DISCONTINUED)

\* the canonical key of an ItemCode cell and of a vendor row
ItemKey(item) ==
    LET t == parse_item_no_fd(item) IN create_lookup_key(t[1], t[2], t[3], t[4])

RowKey(v) == create_lookup_key(v["Vendor Style"], v["Color"], v["Size"], v["Variable"])

\* C8: the flagged output is exactly the internal items whose canonical key is
\* the canonical key of a vendor row whose Style Name contains DISCONTINUED
\* case-insensitively, in the order of the internal table; rows without the
\* marker flag nothing.
C8_FlaggedExactlyDiscontinued ==
    pc = "found" =>
        /\ Flagged = SelectSeq(Column(args.oitm_file.df, "ItemCode"),
                        LAMBDA item : \E j \in DOMAIN vpl_df.rows :
                            HasMarker(vpl_df.rows[j]) /\ RowKey(vpl_df.rows[j]) = ItemKey(item))
        /\ ret[1].matched_to_deactivate = Len(Flagged)

\* of two items, the second alone was flagged, by a row whose marker is not in
\* capitals, while a row without the marker has the key of the first
C8_Witness ==
    /\ pc = "found"
    /\ Len(oitm_df.rows) = 2
    /\ Flagged = <<oitm_df.rows[2]["ItemCode"]>>
    /\ \E j, k \in DOMAIN vpl_df.rows :
          /\ HasMarker(vpl_df.rows[j])
          /\ ~Contains(Str(vpl_df.rows[j]["Style Name"]), s_DISCONTINUED)
          /\ RowKey(vpl_df.rows[j]) = ItemKey(oitm_df.rows[2]["ItemCode"])
          /\ ~HasMarker(vpl_df.rows[k])
          /\ RowKey(vpl_df.rows[k]) = ItemKey(oitm_df.rows[1]["ItemCode"])

\* the cell denotes a variant: it is not missing, blank, NONE or NAN
HasVariant(cell) == notna(cell) /\ UpperStrip(cell) \notin {<<>>, s_NONE, s_NAN}

\* C9: discontinuation mode is single-tier and maps no size: every flagged
\* item is flagged by a discontinued vendor row with its own normalized style,
\* color and unmapped size that carries a variant exactly when the item does,
\* and then the same one.  So a row without a variant never flags an item with
\* one, nor a row with a variant an item without, nor an LG row an L item.
C9_SingleTierNoSizeMapping ==
    pc = "found" =>
        \A i \in DOMAIN oitm_df.rows :
            (\E k \in DOMAIN Flagged : Flagged[k] = oitm_df.rows[i]["ItemCode"])
            => \E j \in DOMAIN vpl_df.rows :
                  LET r == oitm_df.rows[i]
                      v == vpl_df.rows[j]
                  IN  /\ HasMarker(v)
                      /\ UpperStrip(v["Vendor Style"]) = UpperStrip(r["Style"])
                      /\ UpperStrip(v["Color"]) = UpperStrip(r["Color"])
                      /\ UpperStrip(v["Size"]) = UpperStrip(r["Size"])
                      /\ HasVariant(v["Variable"]) = HasVariant(r["Variable"])
                      /\ HasVariant(r["Variable"])
                            => UpperStrip(v["Variable"]) = UpperStrip(r["Variable"])

\* an item with a variant was left unflagged although a discontinued row
\* without a variant has its style, color and size, and an item of size L of
\* the size-rule style 2278 although a discontinued row has its size LG
C9_Witness ==
    /\ pc = "found"
    /\ Flagged = <<>>
    /\ \E i \in DOMAIN oitm_df.rows : \E j \in DOMAIN vpl_df.rows :
          LET r == oitm_df.rows[i]
              v == vpl_df.rows[j]
          IN  /\ HasVariant(r["Variable"])
              /\ ~HasVariant(v["Variable"])
              /\ HasMarker(v)
              /\ UpperStrip(v["Vendor Style"]) = UpperStrip(r["Style"])
              /\ UpperStrip(v["Color"]) = UpperStrip(r["Color"])
              /\ UpperStrip(v["Size"]) = UpperStrip(r["Size"])
    /\ \E i \in DOMAIN oitm_df.rows : \E j \in DOMAIN vpl_df.rows :
          LET r == oitm_df.rows[i]
              v == vpl_df.rows[j]
          IN  /\ r["Style"] = s_2278
              /\ r["Size"] = s_L
              /\ HasMarker(v)
              /\ v["Vendor Style"] = s_2278
              /\ v["Color"] = r["Color"]
              /\ v["Size"] = apply_conditional_size_mapping(r, STYLES_USING_G_SIZES)
              /\ v["Size"] = s_LG

-----------------------------------------------------------------------------
(* find_discontinued_items: find_file_pairs, create_summary_report, main *)

\* find_discontinued_items.find_file_pairs on the two glob listings
find_file_pairs_fd(oitm_files, dtw_files) ==
    LET Matching(oitm_file) ==
            {j \in DOMAIN dtw_files :
                Contains(Lower(FileName(dtw_files[j])), Lower(VendorName(oitm_file)))}
        matching_dtw(oitm_file) ==
            dtw_files[CHOOSE j \in Matching(oitm_file) : \A k \in Matching(oitm_file) : j <= k]
        paired == SelectSeq(oitm_files, LAMBDA oitm_file : Matching(oitm_file) # {})
    IN  [i \in DOMAIN paired |-> <<paired[i], matching_dtw(paired[i])>>]

s_No_items_to_deactivate ==
    <<"N", "o", " ", "i", "t", "e", "m", "s", " ", "t", "o", " ",
      "d", "e", "a", "c", "t", "i", "v", "a", "t", "e">>

\* find_discontinued_items.create_summary_report: the per-vendor rows and the
\* TOTAL row (lines 346-367)
create_summary_report_fd(results_in) ==
    [summary |-> [i \in DOMAIN results_in |->
                    [vendor |-> results_in[i].vendor,
                     total_oitm |-> results_in[i].total_oitm,
                     discontinued_in_dtw |-> results_in[i].discontinued_in_dtw,
                     matched_to_deactivate |-> results_in[i].matched_to_deactivate,
                     output_file |-> IF results_in[i].output_file # None
                                     THEN results_in[i].output_file
                                     ELSE s_No_items_to_deactivate]],
     total |-> [total_oitm |-> SumSeq(results_in, LAMBDA r : r.total_oitm),
                discontinued_in_dtw |-> SumSeq(results_in, LAMBDA r : r.discontinued_in_dtw),
                matched_to_deactivate |-> SumSeq(results_in, LAMBDA r : r.matched_to_deactivate)]]

DtwFile(stem, columns, rows) ==
    [stem |-> stem,
     df |-> [columns |-> columns,
             rows |-> [i \in DOMAIN rows |-> [c \in columns |-> rows[i][c]]]]]

d_A_RED_M == DtwRow(s_A, s_RED, s_M, NaN, n_Tee_Discontinued)
d_a_red_m_1 == DtwRow(<<" ", "a">>, <<"r", "e", "d", " ">>, <<"m">>, <<"1">>, s_DISCONTINUED)
d_A_RED_M_2 == DtwRow(s_A, s_RED, s_M, <<"2">>, n_Tee)
d_2278_RED_LG == DtwRow(s_2278, s_RED, s_LG, NaN, n_Tee_Discontinued)

\* the internal files drawn: a vendor with flagged items, a second internal
\* file of that vendor, a vendor without discontinued rows, a vendor whose
\* discontinued row no item matches, the file of a vendor whose table lacks
\* 'Style Name', the file of a vendor whose table lacks 'Variable', and a
\* file read_excel fails on
DiscBatchOitmFiles ==
    {OitmFile(s_V1_OITM, "ItemCode", <<i_A_RED_M_1, i_A_RED_M_2, i_A_RED_M>>),
     OitmFile(s_V1_OITM_B, "ItemCode", <<i_A_RED_M>>),
     OitmFile(s_V2_OITM, "ItemCode", <<i_A_RED_M_2>>),
     OitmFile(s_V3_OITM, "ItemCode", <<i_2278_RED_L, i_A_RED_M_2>>),
     OitmFile(s_V4_OITM, "ItemCode", <<i_A_RED_M>>),
     OitmFile(s_V5_OITM, "ItemCode", <<i_A_RED_M, i_A_RED_M_1>>),
     [stem |-> s_V6_OITM, df |-> Unreadable]}

\* the listing of all vendor files drawn: the *DTW* file, then the *VPL* files
DtwListing ==
    <<DtwFile(s_V4_VPL, DtwColumns \ {"Style Name"}, <<d_A_RED_M>>),
      DtwFile(s_V1_VPL, DtwColumns, <<d_A_RED_M, d_a_red_m_1>>),
      DtwFile(s_V2_VPL, DtwColumns, <<d_A_RED_M_2>>),
      DtwFile(s_V3_VPL, DtwColumns, <<d_2278_RED_LG>>),
      DtwFile(s_V5_VPL, DtwColumns \ {"Variable"}, <<d_a_red_m_1>>),
      DtwFile(s_V6_VPL, DtwColumns, <<d_A_RED_M>>)>>

DiscDirs ==
    [oitm_files : {l \in SeqsOf(DiscBatchOitmFiles, 0, MaxPairs) :
                      \A i, j \in DOMAIN l : i # j => l[i] # l[j]},
     dtw_files : {DtwListing} \cup {Without(DtwListing, i) : i \in DOMAIN DtwListing}]

InitDiscBatch ==
    /\ pc = "fd_main"
    /\ \E dir \in DiscDirs :
          args = [oitm_files |-> dir.oitm_files, dtw_files |-> dir.dtw_files]
    /\ ret = <<>>
    /\ Idle

\* main, lines 414-420: the pairs are discovered; without pairs main returns,
\* otherwise the loop starts
DiscStartMain ==
    /\ pc = "fd_main"
    /\ file_pairs' = find_file_pairs_fd(args.oitm_files, args.dtw_files)
    /\ pc' = IF file_pairs' = <<>> THEN "fd_done" ELSE "fd_find_discontinued_items"
    /\ UNCHANGED <<args, ret, oitm_df, vpl_df, idx, results, output_dir, report>>

\* main, lines 423-427: one turn of the loop over the pairs
DiscProcessVendor ==
    /\ pc = "fd_find_discontinued_items"
    /\ idx < Len(file_pairs)
    /\ LET pair == file_pairs[idx + 1]
           out == find_discontinued_items(pair[1], pair[2], output_dir)
       IN  /\ ret' = out.result
           /\ oitm_df' = out.oitm_df
           /\ vpl_df' = out.vpl_df
           /\ output_dir' = out.output_dir
           /\ results' = IF out.result # <<>> THEN results \o out.result ELSE results
    /\ idx' = idx + 1
    /\ UNCHANGED <<pc, args, file_pairs, report>>

\* main, lines 430-448: the summary report of the pairs that succeeded
DiscCreateSummaryReport ==
    /\ pc = "fd_find_discontinued_items"
    /\ idx = Len(file_pairs)
    /\ results # <<>>
    /\ report' = <<create_summary_report_fd(results)>>
    /\ pc' = "fd_done"
    /\ UNCHANGED <<args, ret, oitm_df, vpl_df, file_pairs, idx, results, output_dir>>

\* main, lines 449-450: no pair succeeded
DiscNoVendorsProcessed ==
    /\ pc = "fd_find_discontinued_items"
    /\ idx = Len(file_pairs)
    /\ results = <<>>
    /\ pc' = "fd_done"
    /\ UNCHANGED <<args, ret, oitm_df, vpl_df, file_pairs, idx, results, output_dir, report>>

NextDiscBatch ==
    \/ DiscStartMain
    \/ DiscProcessVendor
    \/ DiscCreateSummaryReport
    \/ DiscNoVendorsProcessed

SpecDiscBatch == InitDiscBatch /\ [][NextDiscBatch]_vars

\* a run of either batch driver
InitDrivers == InitBatch \/ InitDiscBatch

NextDrivers == NextBatch \/ NextDiscBatch

SpecDrivers == InitDrivers /\ [][NextDrivers]_vars

\* the run is one of the price matcher
PriceRun == pc \in {"main", "process_vendor", "done"}

\* the run has ended
Done == pc \in {"done", "fd_done"}

\* both files of the pair can be read and hold the columns the script requires
PairSucceeds(pair) ==
    /\ ~ReadFails(pair[1])
    /\ ~ReadFails(pair[2])
    /\ IF PriceRun
       THEN ColumnsValid(pair[1], pair[2])
       ELSE DiscColumnsValid(pair[1].df, normalize_dtw_columns(pair[2].df))

\* the pairs among the first n discovered that succeed, in discovery order
Succeeded(n) == SelectSeq(SubSeq(file_pairs, 1, n), PairSucceeds)

\* C12: in both drivers a pair that fails (a required column is missing, or
\* reading a file raises an exception) is skipped and nothing else: the pairs
\* are attempted one by one in discovery order whatever the earlier outcomes,
\* the run ends only after the last pair, the results are those of the pairs
\* that succeeded, and when a pair succeeded the summary has one row for each
\* pair that succeeded, in order, and no other row.
C12_FailureSkipsPairOnly ==
    /\ [](/\ idx <= Len(file_pairs)
          /\ Len(results) = Len(Succeeded(idx))
          /\ \A k \in DOMAIN results : results[k].vendor = VendorName(Succeeded(idx)[k][1])
          /\ idx > 0 =>
                /\ ret # <<>> <=> PairSucceeds(file_pairs[idx])
                /\ ret # <<>> => ret[1] = results[Len(results)]
          /\ Done => idx = Len(file_pairs)
          /\ Done => (report # <<>> <=> Succeeded(Len(file_pairs)) # <<>>)
          /\ report # <<>> =>
                /\ Done
                /\ Len(report[1].summary) = Len(Succeeded(Len(file_pairs)))
                /\ \A k \in DOMAIN report[1].summary :
                      /\ report[1].summary[k].vendor = VendorName(Succeeded(Len(file_pairs))[k][1])
                      /\ report[1].summary[k].vendor = results[k].vendor)
    /\ [][/\ idx' # idx => idx' = idx + 1
          /\ idx > 0 \/ idx' > 0 => file_pairs' = file_pairs
          /\ Done => UNCHANGED vars]_vars

\* a batch of two pairs has ended: reading the first pair's internal file
\* raised an exception, the second pair succeeded, and the summary holds the
\* second pair alone
C12_Witness ==
    /\ Done
    /\ Len(file_pairs) = 2
    /\ ReadFails(file_pairs[1][1])
    /\ PairSucceeds(file_pairs[2])
    /\ report # <<>>
    /\ Len(report[1].summary) = 1
    /\ report[1].summary[1].vendor = VendorName(file_pairs[2][1])

\* the result reports no matched item (price matcher) or no item to
\* deactivate (discontinuation finder)
ZeroResult(result) ==
    IF PriceRun THEN result.matched_skus = 0 ELSE result.matched_to_deactivate = 0

\* C13: a pair without matches (price matcher), or without discontinued or
\* flagged items (discontinuation finder), is a valid result: it is among the
\* results with zero counts, its row is in the summary, and no output file is
\* written for it.
C13_EmptyResultNoFile ==
    /\ (idx > 0 /\ ret # <<>> /\ ZeroResult(ret[1])) =>
          /\ results # <<>>
          /\ results[Len(results)] = ret[1]
    /\ (results # <<>> /\ \A k \in DOMAIN results : ZeroResult(results[k])) =>
          DOMAIN output_dir = {}
    /\ report # <<>> =>
          \A k \in DOMAIN results :
              ZeroResult(results[k]) =>
                  IF PriceRun
                  THEN /\ report[1].summary[k].matched_skus = 0
                       /\ report[1].summary[k].removed_skus = results[k].total_skus
                  ELSE report[1].summary[k].matched_to_deactivate = 0

\* the pair's files can be read and hold every required column, the vendor
\* table's Variable column aside, which is missing
OnlyVariableMissing(pair) ==
    /\ ~ReadFails(pair[1])
    /\ ~ReadFails(pair[2])
    /\ IF PriceRun
       THEN /\ "Item No." \in pair[1].df.columns
            /\ {"Vendor Style", "Color", "Size", "Price"} \subseteq pair[2].df.columns
            /\ "Variable" \notin pair[2].df.columns
       ELSE /\ "ItemCode" \in pair[1].df.columns
            /\ {"Vendor Style", "Color", "Size", "Style Name"}
                  \subseteq normalize_dtw_columns(pair[2].df).columns
            /\ "Variable" \notin normalize_dtw_columns(pair[2].df).columns

\* C14: in both modes a pair whose vendor table has every required column
\* except Variable is processed, not skipped, and every vendor row is keyed
\* as a row without variant.
C14_VariableOptional ==
    (idx > 0 /\ OnlyVariableMissing(file_pairs[idx])) =>
        /\ ret # <<>>
        /\ Len(vpl_df.rows) = Len(file_pairs[idx][2].df.rows)
        /\ \A j \in DOMAIN vpl_df.rows :
              IF PriceRun
              THEN /\ "Lookup_Key_4" \in DOMAIN vpl_df.rows[j]
                   /\ vpl_df.rows[j]["Lookup_Key_4"] = vpl_df.rows[j]["Lookup_Key_3"] \o <<"|">>
              ELSE /\ "Lookup_Key" \in DOMAIN vpl_df.rows[j]
                   /\ Count(vpl_df.rows[j]["Lookup_Key"], "|") = 2

\* C19: in one run no two processed pairs write the same output file: when
\* the run has ended there are as many output files as results that report an
\* output file, and the file a result reports holds the rows of its pair.
C19_NoOutputOverwrite ==
    Done =>
        /\ Cardinality(DOMAIN output_dir)
              = Cardinality({k \in DOMAIN results : results[k].output_file # None})
        /\ \A k \in DOMAIN results :
              results[k].output_file # None =>
                  LET written == output_dir[results[k].output_file]
                      pair == Succeeded(Len(file_pairs))[k]
                  IN  IF PriceRun
                      THEN /\ Len(written) = results[k].matched_skus
                           /\ \A n \in DOMAIN written :
                                 \E i \in DOMAIN pair[1].df.rows :
                                     pair[1].df.rows[i]["Item No."] = written[n][1]
                      ELSE /\ Len(written) = results[k].matched_to_deactivate
                           /\ \A n \in DOMAIN written :
                                 written[n][1] = results[k].items_list[n]

=============================================================================
